---- MODULE Spec2Model ----
(***************************************************************************)
(* VIC-absence: the reconciliation of absence records against the dated    *)
(* two-track ledger sheet (src/src/sheets.py), with its caller             *)
(* (src/src/app.py).                                                       *)
(*                                                                         *)
(* Cell texts are modelled as sequences of tokens: one token per decimal   *)
(* digit, "," for the separator and the token "gyosi" for the unit suffix  *)
(* (the Korean literal of the source, transliterated).  Names and sheet    *)
(* labels are transliterated as well.                                      *)
(***************************************************************************)
EXTENDS Integers, Sequences, FiniteSets, TLC

(***************************************************************************)
(* Bounds of the model.                                                    *)
(***************************************************************************)
MaxRecs == 2
MaxRows == 2
ConcMaxRecs == 1
ConcMaxRows == 2
PackMaxRecs == 4
PackMaxRows == 3
MaxRosterRows == 2
MaxMerges == 3
DaysMaxRecs == 2
DaysMaxRows == 3

(***************************************************************************)
(* Generic helpers.                                                        *)
(***************************************************************************)
Range(s) == {s[i] : i \in DOMAIN s}

MaxOf(S, default) == IF S = {} THEN default ELSE CHOOSE m \in S : \A x \in S : x <= m

MinOf(S) == CHOOSE m \in S : \A x \in S : m <= x

RECURSIVE SortedSeq(_)
SortedSeq(S) == IF S = {} THEN <<>> ELSE <<MinOf(S)>> \o SortedSeq(S \ {MinOf(S)})

(***************************************************************************)
(* Text conversions.                                                       *)
(***************************************************************************)
SUFFIX == "gyosi"

Digits == <<"0", "1", "2", "3", "4", "5", "6", "7", "8", "9">>

IsDigit(t) == t \in Range(Digits)

DigitVal(t) == (CHOOSE i \in DOMAIN Digits : Digits[i] = t) - 1

\* str(n) for n >= 0
RECURSIVE Str(_)
Str(n) == IF n < 10 THEN <<Digits[n + 1]>> ELSE Str(n \div 10) \o <<Digits[(n % 10) + 1]>>

\* the value of a run of digit tokens
RECURSIVE DigitsToInt(_)
DigitsToInt(ds) ==
    IF ds = <<>> THEN 0
    ELSE 10 * DigitsToInt(SubSeq(ds, 1, Len(ds) - 1)) + DigitVal(ds[Len(ds)])

\* int(text): succeeds on a non-empty run of digits, ValueError otherwise
IsInt(text) == text # <<>> /\ \A i \in DOMAIN text : IsDigit(text[i])

\* text.split(SUFFIX)[0]
BeforeSuffix(text) ==
    LET hits == {i \in DOMAIN text : text[i] = SUFFIX}
    IN  IF hits = {} THEN text ELSE SubSeq(text, 1, MinOf(hits) - 1)

\* re.findall(r'\d+', text) converted with int(): the maximal digit runs, in order
RECURSIVE FindAllInts(_, _)
FindAllInts(text, cur) ==
    IF text = <<>> THEN (IF cur = <<>> THEN <<>> ELSE <<DigitsToInt(cur)>>)
    ELSE IF IsDigit(Head(text)) THEN FindAllInts(Tail(text), Append(cur, Head(text)))
    ELSE (IF cur = <<>> THEN <<>> ELSE <<DigitsToInt(cur)>>) \o FindAllInts(Tail(text), <<>>)

\* ",".join(str(p) for p in periods)
RECURSIVE JoinPeriods(_)
JoinPeriods(periods) ==
    IF periods = <<>> THEN <<>>
    ELSE IF Len(periods) = 1 THEN Str(periods[1])
    ELSE Str(periods[1]) \o <<",">> \o JoinPeriods(Tail(periods))

parse_periods(period_text) == FindAllInts(BeforeSuffix(period_text), <<>>)

format_periods_suffixfirst(periods) ==
    IF periods = <<>> THEN <<>> ELSE <<SUFFIX>> \o JoinPeriods(periods)

format_periods(periods) ==
    IF periods = <<>> THEN <<>> ELSE JoinPeriods(periods) \o <<SUFFIX>>

merge_periods_replace(existing_periods, new_periods) ==
    JoinPeriods(SortedSeq(Range(new_periods))) \o <<SUFFIX>>

merge_periods_append(existing_periods, new_periods) ==
    JoinPeriods(FindAllInts(BeforeSuffix(existing_periods), <<>>) \o new_periods) \o <<SUFFIX>>

merge_periods(existing_periods, new_periods) ==
    LET existing == IF existing_periods # <<>>
                    THEN Range(FindAllInts(BeforeSuffix(existing_periods), <<>>))
                    ELSE {}
        sorted_periods == SortedSeq(existing \cup Range(new_periods))
    IN  JoinPeriods(sorted_periods) \o <<SUFFIX>>

(***************************************************************************)
(* The ledger sheet: row 1 is the header, every row has the ten columns    *)
(* A..J.  Columns B, F and J hold token texts, the others plain strings.   *)
(***************************************************************************)
COL_A == 1
COL_B == 2
COL_C == 3
COL_D == 4
COL_E == 5
COL_F == 6
COL_G == 7
COL_H == 8
COL_I == 9
COL_J == 10

HeaderRow == <<"naljja", <<"sunbeon">>, "hakbeon", "ireum", "gubun", <<SUFFIX>>,
               "hakbeon", "ireum", "gubun", <<SUFFIX>>>>

\* row = [""] * 10
BlankRow == <<"", <<>>, "", "", "", <<>>, "", "", "", <<>>>>

Dates == {"2026-01-09", "2026-01-12"}

\* datetime.strptime(target_date, "%Y-%m-%d"): month, day, weekday()
Strptime(target_date) ==
    IF target_date = "2026-01-09" THEN [month |-> 1, day |-> 9, weekday |-> 4]
    ELSE [month |-> 1, day |-> 12, weekday |-> 0]

WEEKDAYS == <<"wol", "hwa", "su", "mok", "geum", "to", "il">>

(***************************************************************************)
(* Absence records and the student lists.                                  *)
(***************************************************************************)
AbsenceRecord(student_id, name, grade, periods) ==
    [student_id |-> student_id, name |-> name, grade |-> grade, periods |-> periods]

\* the students of the module's test data
Students == {
    [student_id |-> "10911", name |-> "KimJimong", grade |-> 1],
    [student_id |-> "21202", name |-> "KimMinseo", grade |-> 2],
    [student_id |-> "21220", name |-> "ChoiJinseong", grade |-> 2] }

TimeSlots == {"morning", "afternoon"}

\* the scheduled runs the model covers: both runs of the first day, and the
\* morning run of the second
Occasions == {<<"2026-01-09", "morning">>, <<"2026-01-09", "afternoon">>,
              <<"2026-01-12", "morning">>}

\* the periods of the courses a run of the time slot reports
SlotPeriods(time_slot) == IF time_slot = "morning" THEN <<1, 2>> ELSE <<5, 6>>

DistinctIds(recs) ==
    \A i, j \in DOMAIN recs : i # j => recs[i].student_id # recs[j].student_id

\* the record lists of at most n records a scrape of the time slot can return
RecordLists(n, time_slot, students) ==
    LET RecordSet == {AbsenceRecord(s.student_id, s.name, s.grade, SlotPeriods(time_slot)) :
                         s \in students}
    IN  {recs \in UNION {[1..k -> RecordSet] : k \in 0..n} : DistinctIds(recs)}

\* load_student_data(): the "type" entries of the two student lists
grade1_data == [id \in {"10911"} |-> [type |-> "gisuk"]]

grade2_data == [id \in {"21202"} |-> [type |-> "tonghak"]]

\* student_info = data.get(student_id, {}); student_info.get("type", "")
TypeOf(data, student_id) == IF student_id \in DOMAIN data THEN data[student_id].type ELSE ""

(***************************************************************************)
(* get_today_existing_data                                                 *)
(***************************************************************************)
DataRows(all_values) == {i \in DOMAIN all_values : i > 1}

TodayRows(all_values, today_date) ==
    {i \in DataRows(all_values) : all_values[i][COL_A] = today_date}

LastRow_today(all_values, today_date) ==
    MaxOf(TodayRows(all_values, today_date), 1)

\* the 1-based number of the last row with a date, 1 (the header) if none
LastRow(all_values, today_date) ==
    MaxOf({i \in DataRows(all_values) : all_values[i][COL_A] # ""}, 1)

MaxSeq_alldates(all_values, today_date) ==
    MaxOf({DigitsToInt(all_values[i][COL_B]) :
              i \in {j \in DataRows(all_values) : IsInt(all_values[j][COL_B])}}, 0)

\* the largest int(row[1]) over the rows of today_date, 0 if none
MaxSeq(all_values, today_date) ==
    MaxOf({DigitsToInt(all_values[i][COL_B]) :
              i \in {j \in TodayRows(all_values, today_date) : IsInt(all_values[j][COL_B])}}, 0)

TrackIndex_alldates(all_values, today_date, idcol, percol) ==
    LET rows == DataRows(all_values)
        ids == {all_values[i][idcol] : i \in rows} \ {""}
        rowOf(id) == MaxOf({i \in rows : all_values[i][idcol] = id}, 0)
    IN  [id \in ids |-> [row |-> rowOf(id), periods |-> all_values[rowOf(id)][percol]]]

\* student id -> {row, periods} over the rows of today_date; a later row of the
\* same id replaces an earlier one
TrackIndex(all_values, today_date, idcol, percol) ==
    LET today == TodayRows(all_values, today_date)
        ids == {all_values[i][idcol] : i \in today} \ {""}
        rowOf(id) == MaxOf({i \in today : all_values[i][idcol] = id}, 0)
    IN  [id \in ids |-> [row |-> rowOf(id), periods |-> all_values[rowOf(id)][percol]]]

get_today_existing_data(all_values, today_date) ==
    [grade1 |-> TrackIndex(all_values, today_date, COL_C, COL_F),
     grade2 |-> TrackIndex(all_values, today_date, COL_G, COL_J),
     max_seq |-> MaxSeq(all_values, today_date),
     last_row |-> LastRow(all_values, today_date)]

EmptyIndex == [id \in {} |-> [row |-> 0, periods |-> <<>>]]

NoExisting == [grade1 |-> EmptyIndex, grade2 |-> EmptyIndex, max_seq |-> 0, last_row |-> 1]

(***************************************************************************)
(* get_cancelled_students and the filter                                   *)
(***************************************************************************)
\* a read of the cancellation sheet: whether it succeeds, and the values of its
\* column A below the header
CancelReads == {<<TRUE, <<>>>>, <<TRUE, <<"10911", " ">>>>, <<FALSE, <<"10911", " ">>>>}

\* sid.strip()
Strip(sid) == IF sid = " " THEN "" ELSE sid

get_cancelled_students_failclosed(readOk, col_values) ==
    IF readOk THEN {sid \in Range(col_values) : Strip(sid) # ""}
    ELSE {s.student_id : s \in Students}

get_cancelled_students(readOk, col_values) ==
    IF readOk THEN {sid \in Range(col_values) : Strip(sid) # ""} ELSE {}

FilterRecords_none(records, cancelled_students) == records

FilterRecords_inverted(records, cancelled_students) ==
    LET Keep(r) == r.student_id \in cancelled_students
    IN  SelectSeq(records, Keep)

FilterRecords(records, cancelled_students) ==
    LET Keep(r) == r.student_id \notin cancelled_students
    IN  SelectSeq(records, Keep)

(***************************************************************************)
(* Partition of the filtered records                                       *)
(***************************************************************************)
GradeRecords(filtered_records, grade) ==
    LET Keep(r) == r.grade = grade IN SelectSeq(filtered_records, Keep)

UpdateBucket(grade_records, index) ==
    LET Keep(r) == r.student_id \in DOMAIN index IN SelectSeq(grade_records, Keep)

NewBucket_all(grade_records, index) == grade_records

NewBucket(grade_records, index) ==
    LET Keep(r) == r.student_id \notin DOMAIN index IN SelectSeq(grade_records, Keep)

Max2(a, b) == IF a >= b THEN a ELSE b

(***************************************************************************)
(* The rows of the appended block                                          *)
(***************************************************************************)
NextSeq_gap(max_seq) == max_seq + 2

NextSeq(max_seq) == max_seq + 1

BuildRow(i, date_str, next_seq, grade1_new, grade2_new) ==
    <<date_str,
      Str(next_seq + i),
      IF i < Len(grade1_new) THEN grade1_new[i + 1].student_id ELSE "",
      IF i < Len(grade1_new) THEN grade1_new[i + 1].name ELSE "",
      IF i < Len(grade1_new) THEN TypeOf(grade1_data, grade1_new[i + 1].student_id) ELSE "",
      IF i < Len(grade1_new) THEN format_periods(grade1_new[i + 1].periods) ELSE <<>>,
      IF i < Len(grade2_new) THEN grade2_new[i + 1].student_id ELSE "",
      IF i < Len(grade2_new) THEN grade2_new[i + 1].name ELSE "",
      IF i < Len(grade2_new) THEN TypeOf(grade2_data, grade2_new[i + 1].student_id) ELSE "",
      IF i < Len(grade2_new) THEN format_periods(grade2_new[i + 1].periods) ELSE <<>> >>

BuildRows_min(date_str, next_seq, grade1_new, grade2_new) ==
    [i \in 1..(Len(grade1_new) + Len(grade2_new) - Max2(Len(grade1_new), Len(grade2_new))) |->
        BuildRow(i - 1, date_str, next_seq, grade1_new, grade2_new)]

BuildRows(date_str, next_seq, grade1_new, grade2_new) ==
    [i \in 1..Max2(Len(grade1_new), Len(grade2_new)) |->
        BuildRow(i - 1, date_str, next_seq, grade1_new, grade2_new)]

(***************************************************************************)
(* worksheet.update                                                        *)
(***************************************************************************)
PadTo(sheet, n) ==
    [i \in 1..Max2(Len(sheet), n) |-> IF i <= Len(sheet) THEN sheet[i] ELSE BlankRow]

WriteCell_wholerow(sheet, row, col, val) ==
    [PadTo(sheet, row) EXCEPT ![row] = [BlankRow EXCEPT ![col] = val]]

\* update of the single cell (row, col)
WriteCell(sheet, row, col, val) ==
    [PadTo(sheet, row) EXCEPT ![row] = [@ EXCEPT ![col] = val]]

\* update of the range A<next_row>:J<end_row> with rows_to_write
WriteBlock(sheet, next_row, rows_to_write) ==
    [i \in 1..Max2(Len(sheet), next_row + Len(rows_to_write) - 1) |->
        IF i >= next_row /\ i < next_row + Len(rows_to_write)
        THEN rows_to_write[i - next_row + 1]
        ELSE IF i <= Len(sheet) THEN sheet[i] ELSE BlankRow]

\* the rows of the sheet that a block of k rows written at next_row replaces
Overwritten(sheet, next_row, k) ==
    {i \in DOMAIN sheet : i >= next_row /\ i < next_row + k}

(***************************************************************************)
(* update_notification_message                                             *)
(***************************************************************************)
TimeLabel(time_slot) == IF time_slot = "morning" THEN "ojeon" ELSE "ohu"

Message(student_count, time_slot, target_date) ==
    [month |-> Strptime(target_date).month,
     day |-> Strptime(target_date).day,
     weekday |-> WEEKDAYS[Strptime(target_date).weekday + 1],
     student_count |-> student_count,
     time_label |-> TimeLabel(time_slot)]

\* the content of cell B4 after update(range_name="B4", values=[[message]])
UpdateB4(cell, message) == <<message>>

(***************************************************************************)
(* State.  ledger is the absence sheet, notify the content of cell B4 of   *)
(* the notification sheet, run[p] the position and the locals of the       *)
(* invocation p of write_absence_records, with what it has written so far; *)
(* scrape is the position and the locals of scrape_absence_data, and call  *)
(* the last evaluated call of the periods text functions.                  *)
(***************************************************************************)
VARIABLES ledger, notify, run, scrape, call

vars == <<ledger, notify, run, scrape, call>>

Procs == {1, 2}

\* the value of "ret" while nothing has been returned
NoResult == 0 - 1

NoRun ==
    [pc |-> "idle", records |-> <<>>, date |-> "", slot |-> "",
     cancelOk |-> TRUE, cancelSheet |-> <<>>, cancelled |-> {},
     filtered |-> <<>>, existing |-> NoExisting,
     grade1_update |-> <<>>, grade1_new |-> <<>>,
     grade2_update |-> <<>>, grade2_new |-> <<>>,
     grade1_records |-> <<>>, grade2_records |-> <<>>,
     ui |-> 1, updated_count |-> 0, new_rows_count |-> 0,
     ret |-> NoResult, err |-> "",
     start |-> <<HeaderRow>>, startNotify |-> <<>>,
     cells |-> <<>>, blocks |-> <<>>, notes |-> <<>>,
     nfail |-> FALSE, repeat |-> FALSE, prevRet |-> NoResult, fresh |-> FALSE]

\* the locals of scrape_absence_data before the call
NoScrape ==
    [pc |-> "idle", time_slot |-> "", rows |-> <<>>, student_periods |-> <<>>,
     order |-> <<>>, contrib |-> <<>>, records |-> <<>>]

NoCall == [fn |-> "", existing |-> <<>>, lists |-> <<>>, result |-> <<>>]

Init ==
    /\ ledger = <<HeaderRow>>
    /\ notify = <<>>
    /\ run = [p \in Procs |-> NoRun]
    /\ scrape = NoScrape
    /\ call = NoCall

\* the inputs of one invocation
Inputs(maxRecs, cancelReads, occasions, students) ==
    UNION {{[records |-> recs, date |-> o[1], slot |-> o[2], cancelOk |-> c[1],
             cancelSheet |-> c[2]] :
                recs \in RecordLists(maxRecs, o[2], students), c \in cancelReads} :
           o \in occasions}

\* the update records in the order of the two merge loops, with their track
Updates(r) ==
    [i \in 1..(Len(r.grade1_update) + Len(r.grade2_update)) |->
        IF i <= Len(r.grade1_update)
        THEN [track |-> 1, rec |-> r.grade1_update[i]]
        ELSE [track |-> 2, rec |-> r.grade2_update[i - Len(r.grade1_update)]]]

MaxNewRows(r) == Max2(Len(r.grade1_new), Len(r.grade2_new))

\* an exception of a ledger call is not caught in write_absence_records
OnLedgerError_skip(phase) == IF phase = "merge" THEN "append" ELSE "notify"

OnLedgerError(phase) == "failed"

TotalStudents_rows(grade1_records, grade2_records, new_rows_count) == new_rows_count

\* total_students = len(grade1_records) + len(grade2_records)
TotalStudents(grade1_records, grade2_records, new_rows_count) ==
    Len(grade1_records) + Len(grade2_records)

\* what follows the merge loops, and what follows the append
AfterMerge(r) == IF MaxNewRows(r) > 0 THEN "append" ELSE "notify"

\* the end of the function: the notification when time_slot is given, then the return
Finish(r) ==
    IF r.pc = "notify" /\ r.slot = ""
    THEN [r EXCEPT !.pc = "done", !.ret = r.new_rows_count]
    ELSE r

(***************************************************************************)
(* write_absence_records, up to the partition                              *)
(***************************************************************************)
Started(in, repeat) ==
    LET cancelled_students == get_cancelled_students(in.cancelOk, in.cancelSheet)
        filtered_records == FilterRecords(in.records, cancelled_students)
        existing_data == get_today_existing_data(ledger, in.date)
        grade1_records == GradeRecords(filtered_records, 1)
        grade2_records == GradeRecords(filtered_records, 2)
        base == [NoRun EXCEPT
                   !.records = in.records, !.date = in.date, !.slot = in.slot,
                   !.cancelOk = in.cancelOk, !.cancelSheet = in.cancelSheet,
                   !.start = ledger, !.startNotify = notify, !.repeat = repeat]
        part == [base EXCEPT
                   !.cancelled = cancelled_students,
                   !.filtered = filtered_records,
                   !.existing = existing_data,
                   !.grade1_update = UpdateBucket(grade1_records, existing_data.grade1),
                   !.grade1_new = NewBucket(grade1_records, existing_data.grade1),
                   !.grade2_update = UpdateBucket(grade2_records, existing_data.grade2),
                   !.grade2_new = NewBucket(grade2_records, existing_data.grade2),
                   !.grade1_records = grade1_records,
                   !.grade2_records = grade2_records,
                   !.fresh = TRUE]
    IN  IF in.records = <<>>
        THEN [base EXCEPT !.pc = "done", !.ret = 0]
        ELSE IF filtered_records = <<>>
        THEN [base EXCEPT !.pc = "done", !.ret = 0, !.cancelled = cancelled_students]
        ELSE Finish([part EXCEPT !.pc = IF Len(Updates(part)) > 0 THEN "merge"
                                        ELSE AfterMerge(part)])

\* a call of write_absence_records(records, target_date, time_slot)
Begin(p, in, maxRows) ==
    /\ run[p].pc = "idle"
    /\ LET r == Started(in, FALSE)
       IN  /\ r.existing.last_row + MaxNewRows(r) - 1 <= maxRows
           /\ run' = [run EXCEPT ![p] = r]
    /\ UNCHANGED <<ledger, notify, scrape, call>>

\* the caller runs a completed call again with the identical arguments
Rerun(p) ==
    /\ run[p].pc = "done"
    /\ run[p].filtered # <<>>
    /\ run' = [run EXCEPT ![p] =
                  [Started([records |-> run[p].records, date |-> run[p].date,
                            slot |-> run[p].slot, cancelOk |-> run[p].cancelOk,
                            cancelSheet |-> run[p].cancelSheet], TRUE)
                   EXCEPT !.prevRet = run[p].ret]]
    /\ UNCHANGED <<ledger, notify, scrape, call>>

\* the call has returned or raised: its locals are gone
Return(p) ==
    /\ run[p].pc \in {"done", "failed"}
    /\ run' = [run EXCEPT ![p] = NoRun]
    /\ UNCHANGED <<ledger, notify, scrape, call>>

(***************************************************************************)
(* 1. the two merge loops: one cell update per record of an update bucket  *)
(***************************************************************************)
MergeWrite(p) ==
    /\ run[p].pc = "merge"
    /\ LET r == run[p]
           u == Updates(r)[r.ui]
           existing == IF u.track = 1 THEN r.existing.grade1[u.rec.student_id]
                       ELSE r.existing.grade2[u.rec.student_id]
           merged == merge_periods(existing.periods, u.rec.periods)
           col == IF u.track = 1 THEN COL_F ELSE COL_J
           next == [r EXCEPT
                      !.ui = r.ui + 1,
                      !.updated_count = r.updated_count + 1,
                      !.cells = Append(r.cells,
                                       [row |-> existing.row, col |-> col, val |-> merged]),
                      !.pc = IF r.ui < Len(Updates(r)) THEN "merge" ELSE AfterMerge(r)]
       IN  /\ ledger' = WriteCell(ledger, existing.row, col, merged)
           /\ run' = [run EXCEPT ![p] = Finish(next)]
    /\ UNCHANGED <<notify, scrape, call>>

MergeFail(p) ==
    /\ run[p].pc = "merge"
    /\ run' = [run EXCEPT ![p] =
                  Finish([run[p] EXCEPT !.pc = OnLedgerError("merge"), !.err = "merge"])]
    /\ UNCHANGED <<ledger, notify, scrape, call>>

(***************************************************************************)
(* 2. the append of the block of new rows                                  *)
(***************************************************************************)
AppendWrite(p) ==
    /\ run[p].pc = "append"
    /\ LET r == run[p]
           next_seq == NextSeq(r.existing.max_seq)
           next_row == r.existing.last_row + 1
           rows_to_write == BuildRows(r.date, next_seq, r.grade1_new, r.grade2_new)
           next == [r EXCEPT
                      !.new_rows_count = Len(rows_to_write),
                      !.blocks = Append(r.blocks,
                                        [row |-> next_row, rows |-> rows_to_write,
                                         over |-> Overwritten(ledger, next_row,
                                                              Len(rows_to_write))]),
                      !.pc = "notify"]
       IN  /\ ledger' = WriteBlock(ledger, next_row, rows_to_write)
           /\ run' = [q \in Procs |->
                        IF q = p THEN Finish(next) ELSE [run[q] EXCEPT !.fresh = FALSE]]
    /\ UNCHANGED <<notify, scrape, call>>

AppendFail(p) ==
    /\ run[p].pc = "append"
    /\ run' = [run EXCEPT ![p] =
                  Finish([run[p] EXCEPT !.pc = OnLedgerError("append"), !.err = "append"])]
    /\ UNCHANGED <<ledger, notify, scrape, call>>

(***************************************************************************)
(* The notification and the return                                         *)
(***************************************************************************)
Notify(p) ==
    /\ run[p].pc = "notify"
    /\ LET r == run[p]
           total_students ==
               TotalStudents(r.grade1_records, r.grade2_records, r.new_rows_count)
           message == Message(total_students, r.slot, r.date)
       IN  /\ notify' = UpdateB4(notify, message)
           /\ run' = [run EXCEPT ![p] =
                         [r EXCEPT !.notes = Append(r.notes, message),
                                   !.pc = "done", !.ret = r.new_rows_count]]
    /\ UNCHANGED <<ledger, scrape, call>>

NotifyFail_raise(p) ==
    /\ run[p].pc = "notify"
    /\ run' = [run EXCEPT ![p] = [run[p] EXCEPT !.nfail = TRUE, !.pc = "failed",
                                                !.err = "notify"]]
    /\ UNCHANGED <<ledger, notify, scrape, call>>

\* the sheet lookup or the update raises: caught and printed
NotifyFail(p) ==
    /\ run[p].pc = "notify"
    /\ run' = [run EXCEPT ![p] =
                  [run[p] EXCEPT !.nfail = TRUE, !.pc = "done",
                                 !.ret = run[p].new_rows_count]]
    /\ UNCHANGED <<ledger, notify, scrape, call>>

(***************************************************************************)
(* The caller: the answer of crawl_morning / crawl_afternoon               *)
(***************************************************************************)
Response(p) ==
    IF run[p].pc = "failed"
    THEN [success |-> FALSE, error |-> run[p].err]
    ELSE [success |-> TRUE, rows_written |-> run[p].ret]

(***************************************************************************)
(* Sequential runs: one invocation at a time.                              *)
(***************************************************************************)
SeqInputs == Inputs(MaxRecs, CancelReads, Occasions, Students)

BeginSeq(p) == \E in \in SeqInputs : Begin(p, in, MaxRows)

Next ==
    \/ BeginSeq(1)
    \/ Rerun(1)
    \/ Return(1)
    \/ MergeWrite(1)
    \/ MergeFail(1)
    \/ AppendWrite(1)
    \/ AppendFail(1)
    \/ Notify(1)
    \/ NotifyFail(1)

Spec == Init /\ [][Next]_vars

(***************************************************************************)
(* Concurrent runs: two invocations interleaved at their ledger calls.     *)
(***************************************************************************)
ConcInputs ==
    Inputs(ConcMaxRecs, {<<TRUE, <<>>>>}, {o \in Occasions : o[2] = "morning"},
           {s \in Students : s.student_id # "21220"})

BeginConc(p) == \E in \in ConcInputs : Begin(p, in, ConcMaxRows)

NextConc ==
    \E p \in Procs :
        \/ BeginConc(p)
        \/ Return(p)
        \/ MergeWrite(p)
        \/ AppendWrite(p)
        \/ Notify(p)

SpecConc == Init /\ [][NextConc]_vars

(***************************************************************************)
(* Sequential runs of one morning with longer record lists: three students *)
(* of grade 1, one of grade 2 and one record of grade 0 (common).          *)
(***************************************************************************)
PackStudents == {
    [student_id |-> "10911", name |-> "KimJimong", grade |-> 1],
    [student_id |-> "10912", name |-> "LeeHana", grade |-> 1],
    [student_id |-> "10913", name |-> "ParkDul", grade |-> 1],
    [student_id |-> "21202", name |-> "KimMinseo", grade |-> 2],
    [student_id |-> "21220", name |-> "ChoiJinseong", grade |-> 0] }

PackInputs ==
    Inputs(PackMaxRecs, {<<TRUE, <<>>>>}, {<<"2026-01-09", "morning">>}, PackStudents)

BeginPack(p) == \E in \in PackInputs : Begin(p, in, PackMaxRows)

NextPack ==
    \/ BeginPack(1)
    \/ Return(1)
    \/ MergeWrite(1)
    \/ AppendWrite(1)
    \/ Notify(1)

SpecPack == Init /\ [][NextPack]_vars

(***************************************************************************)
(* Sequential runs over the two days with room for three data rows: one    *)
(* student of each grade, the writes of the ledger failing or not.         *)
(***************************************************************************)
DaysInputs ==
    Inputs(DaysMaxRecs, {<<TRUE, <<>>>>}, Occasions,
           {s \in Students : s.student_id # "21220"})

BeginDays(p) == \E in \in DaysInputs : Begin(p, in, DaysMaxRows)

NextDays ==
    \/ BeginDays(1)
    \/ Return(1)
    \/ MergeWrite(1)
    \/ MergeFail(1)
    \/ AppendWrite(1)
    \/ AppendFail(1)
    \/ Notify(1)

SpecDays == Init /\ [][NextDays]_vars

(***************************************************************************)
(* src/src/scraper.py: the course descriptor of a roster row is a text of  *)
(* tokens ("[", "]", "+", ",", digits, the grade word "hagnyeon", the unit *)
(* suffix and other words); a student id is its five digit tokens.         *)
(***************************************************************************)
HAGNYEON == "hagnyeon"

TokenAt(text, i) == IF i \in DOMAIN text THEN text[i] ELSE ""

\* re.search(r'\[(\d)\+?(\d)?hagnyeon', course_info) anchored at position i:
\* <<matched, group 1, whether group 2 took part>>
GradeMatchAt(course_info, i) ==
    LET d1 == TokenAt(course_info, i + 1)
        plus == IF TokenAt(course_info, i + 2) = "+" THEN 1 ELSE 0
        q == i + 2 + plus
    IN  IF TokenAt(course_info, i) = "[" /\ IsDigit(d1)
        THEN IF IsDigit(TokenAt(course_info, q)) /\ TokenAt(course_info, q + 1) = HAGNYEON
             THEN <<TRUE, d1, TRUE>>
             ELSE IF TokenAt(course_info, q) = HAGNYEON
             THEN <<TRUE, d1, FALSE>>
             ELSE <<FALSE, "", FALSE>>
        ELSE <<FALSE, "", FALSE>>

parse_grade(course_info) ==
    LET hits == {i \in DOMAIN course_info : GradeMatchAt(course_info, i)[1]}
    IN  IF hits = {} THEN 0
        ELSE LET match == GradeMatchAt(course_info, MinOf(hits))
             IN  IF match[3] THEN 0 ELSE DigitVal(match[2])

IsPeriodChar(t) == IsDigit(t) \/ t = ","

\* the position after the run of digits and commas that starts at s
RunEnd(text, s) ==
    MinOf({j \in s..(Len(text) + 1) : ~IsPeriodChar(TokenAt(text, j))})

\* \d+(?:,\d+)*
IsPeriodList(g) ==
    /\ g # <<>>
    /\ IsDigit(g[1])
    /\ IsDigit(g[Len(g)])
    /\ \A i \in 1..(Len(g) - 1) : g[i] = "," => g[i + 1] # ","

\* re.search(r'(\d+(?:,\d+)*)gyosi\]', course_info) anchored at position s
PeriodMatchAt(course_info, s) ==
    LET e == RunEnd(course_info, s)
    IN  /\ IsDigit(TokenAt(course_info, s))
        /\ IsPeriodList(SubSeq(course_info, s, e - 1))
        /\ TokenAt(course_info, e) = SUFFIX
        /\ TokenAt(course_info, e + 1) = "]"

parse_period_from_course(course_info) ==
    LET hits == {s \in DOMAIN course_info : PeriodMatchAt(course_info, s)}
    IN  IF hits = {} THEN <<>>
        ELSE FindAllInts(SubSeq(course_info, MinOf(hits),
                                RunEnd(course_info, MinOf(hits)) - 1), <<>>)

\* valid_periods
ValidPeriods(time_slot) == IF time_slot = "morning" THEN 1..4 ELSE 5..8

ActualGrade_always2(student_id) == 2

\* actual_grade = 1 if student_id.startswith('1') else 2
ActualGrade(student_id) == IF TokenAt(student_id, 1) = "1" THEN 1 ELSE 2

AddPeriods_replace(periods, filtered_periods) == Range(filtered_periods)

\* student_periods[student_id]['periods'].update(filtered_periods)
AddPeriods(periods, filtered_periods) == periods \cup Range(filtered_periods)

\* the loop over the students of one row, from the k-th on; st holds
\* student_periods, the order of its keys and the sightings that were kept
RECURSIVE AddStudents(_, _, _, _, _, _)
AddStudents(st, students, k, grade, filtered_periods, rowNo) ==
    IF k > Len(students) THEN st
    ELSE LET student_id == students[k][1]
             name == students[k][2]
             actual_grade == ActualGrade(student_id)
             seen == student_id \in DOMAIN st.student_periods
             old == IF seen THEN st.student_periods[student_id]
                    ELSE [name |-> name, grade |-> actual_grade, periods |-> {}]
             entry == [old EXCEPT !.periods = AddPeriods(old.periods, filtered_periods)]
             kept == [st EXCEPT
                        !.student_periods =
                            [id \in DOMAIN st.student_periods \cup {student_id} |->
                                IF id = student_id THEN entry ELSE st.student_periods[id]],
                        !.order = IF seen THEN st.order ELSE Append(st.order, student_id),
                        !.contrib = Append(st.contrib,
                                           [row |-> rowNo, k |-> k, periods |-> filtered_periods])]
         IN  AddStudents(IF grade # 0 /\ grade # actual_grade THEN st ELSE kept,
                         students, k + 1, grade, filtered_periods, rowNo)

\* the body of the loop over the rows of the table
ScrapedRow(st, row, time_slot, rowNo) ==
    LET grade == parse_grade(row.course_info)
        periods == parse_period_from_course(row.course_info)
        InWindow(q) == q \in ValidPeriods(time_slot)
        filtered_periods == SelectSeq(periods, InWindow)
    IN  IF row.course_info = <<>> \/ row.students = <<>> THEN st
        ELSE IF filtered_periods = <<>> THEN st
        ELSE AddStudents(st, row.students, 1, grade, filtered_periods, rowNo)

\* the conversion of student_periods to the list of records
ScrapedRecords(st) ==
    [i \in DOMAIN st.order |->
        AbsenceRecord(st.order[i], st.student_periods[st.order[i]].name,
                      st.student_periods[st.order[i]].grade,
                      SortedSeq(st.student_periods[st.order[i]].periods))]

\* the course descriptors and the parsed student lists of the roster rows
GradeMarks == {<<"[", "1", HAGNYEON>>, <<"[", "2", HAGNYEON>>,
               <<"[", "1", "+", "2", HAGNYEON>>, <<>>}

PeriodTexts == {<<"1", ",", "2", SUFFIX, "]">>, <<"3", ",", "4", SUFFIX, "]">>,
                <<"4", ",", "5", SUFFIX, "]">>, <<"]">>}

CourseInfos == {m \o <<"gukje">> \o t : m \in GradeMarks, t \in PeriodTexts}

StudentLists == {
    << <<<<"1", "0", "9", "1", "1">>, "KimJimong">> >>,
    << <<<<"2", "1", "2", "0", "2">>, "KimMinseo">> >>,
    << <<<<"1", "0", "9", "1", "1">>, "KimJimon">>, <<<<"2", "1", "2", "0", "2">>, "KimMinseo">> >> }

RosterRows == {[course_info |-> c, students |-> l] : c \in CourseInfos, l \in StudentLists}

\* scrape_absence_data(page, time_slot) is called
ScrapeBegin ==
    /\ scrape.pc = "idle"
    /\ \E time_slot \in TimeSlots :
          scrape' = [NoScrape EXCEPT !.pc = "rows", !.time_slot = time_slot]
    /\ UNCHANGED <<ledger, notify, run, call>>

\* one row of the table is processed
ScrapeRow ==
    /\ scrape.pc = "rows"
    /\ Len(scrape.rows) < MaxRosterRows
    /\ \E row \in RosterRows :
          scrape' = [ScrapedRow(scrape, row, scrape.time_slot, Len(scrape.rows) + 1)
                     EXCEPT !.rows = Append(scrape.rows, row)]
    /\ UNCHANGED <<ledger, notify, run, call>>

\* the table is exhausted: the records are built and returned
ScrapeFinish ==
    /\ scrape.pc = "rows"
    /\ scrape' = [scrape EXCEPT !.pc = "done", !.records = ScrapedRecords(scrape)]
    /\ UNCHANGED <<ledger, notify, run, call>>

NextScrape == ScrapeBegin \/ ScrapeRow \/ ScrapeFinish

SpecScrape == Init /\ [][NextScrape]_vars

(***************************************************************************)
(* Calls of the periods text functions: format_periods on the ascending    *)
(* list of a period set, and merge_periods folded over an existing text.   *)
(***************************************************************************)
\* the period numbers of the school day
MaxPeriod == 8

\* the periods texts a period cell can hold
ExistingTexts == {
    <<>>,
    <<SUFFIX>>,
    <<"1", ",", "2", SUFFIX>>,
    <<"2", ",", "1", SUFFIX>>,
    <<"5", SUFFIX>>,
    <<"1", "2", SUFFIX>>,
    <<"1", SUFFIX, ",", "5", SUFFIX>> }

\* period lists, unsorted and with repeats
FoldLists == UNION {[1..k -> {1, 2, 5}] : k \in 0..2}

FormatCall ==
    /\ call = NoCall
    /\ \E P \in SUBSET (1..MaxPeriod) :
          call' = [fn |-> "format_periods", existing |-> <<>>, lists |-> <<SortedSeq(P)>>,
                   result |-> format_periods(SortedSeq(P))]
    /\ UNCHANGED <<ledger, notify, run, scrape>>

\* merge_periods("", periods)
MergeEmptyCall ==
    /\ call = NoCall
    /\ \E P \in SUBSET (1..MaxPeriod) :
          call' = [fn |-> "merge_periods", existing |-> <<>>, lists |-> <<SortedSeq(P)>>,
                   result |-> merge_periods(<<>>, SortedSeq(P))]
    /\ UNCHANGED <<ledger, notify, run, scrape>>

\* merge_periods(existing_periods, new_periods)
MergeCall ==
    /\ call = NoCall
    /\ \E existing_periods \in ExistingTexts : \E new_periods \in FoldLists :
          call' = [fn |-> "merge_periods", existing |-> existing_periods,
                   lists |-> <<new_periods>>,
                   result |-> merge_periods(existing_periods, new_periods)]
    /\ UNCHANGED <<ledger, notify, run, scrape>>

\* merge_periods(the text of the last merge, new_periods)
MergeAgainCall ==
    /\ call.fn = "merge_periods"
    /\ Len(call.lists) < MaxMerges
    /\ \E new_periods \in FoldLists :
          call' = [call EXCEPT !.lists = Append(call.lists, new_periods),
                               !.result = merge_periods(call.result, new_periods)]
    /\ UNCHANGED <<ledger, notify, run, scrape>>

NextText == FormatCall \/ MergeEmptyCall \/ MergeCall \/ MergeAgainCall

SpecText == Init /\ [][NextText]_vars

(***************************************************************************)
(* Helpers of the properties.                                              *)
(***************************************************************************)
IdCol(track) == IF track = 1 THEN COL_C ELSE COL_G

PeriodCol(track) == IF track = 1 THEN COL_F ELSE COL_J

\* the rows of the sheet that hold the student on the track at the date
RowsOf(sheet, date, track, student_id) ==
    {i \in DataRows(sheet) : sheet[i][COL_A] = date /\ sheet[i][IdCol(track)] = student_id}

SeqOf(sheet, i) == DigitsToInt(sheet[i][COL_B])

RecordIds(recs) == {recs[i].student_id : i \in DOMAIN recs}

\* C1 (idempotence of a run): while and after a call is run again with the
\* identical records, date and cancellation sheet against the ledger its first
\* run left, both new buckets are empty and every record the run partitions is
\* in an update bucket, no block is written, every period cell it writes
\* keeps the text it had, so the ledger stays equal to the one the first run
\* left, and the second run returns 0.
C1_Idempotent ==
    \A p \in Procs :
        run[p].repeat =>
            /\ run[p].grade1_new = <<>>
            /\ run[p].grade2_new = <<>>
            /\ Len(run[p].grade1_update) + Len(run[p].grade2_update) = Len(run[p].filtered)
            /\ run[p].blocks = <<>>
            /\ \A i \in DOMAIN run[p].cells :
                  run[p].start[run[p].cells[i].row][run[p].cells[i].col] = run[p].cells[i].val
            /\ ledger = run[p].start
            /\ run[p].pc = "done" => run[p].ret = 0

\* a second run has completed after a first run that appended rows, and it has
\* rewritten the period cells of two students
C1_Witness ==
    /\ run[1].repeat
    /\ run[1].pc = "done"
    /\ run[1].prevRet >= 1
    /\ Len(run[1].cells) = 2

\* C2 (merge instead of duplicate): in a sequential run, for every record of
\* an update bucket (its student is already recorded on the target date on its
\* track) the ledger holds exactly one row of that date, track and student, at
\* the row index of the snapshot and with the date and sequence number it had;
\* no appended row of the run holds the student on that track; and once the
\* record is merged the periods text of that row is the formatted ascending
\* union of the periods it held and the incoming periods.
C2_MergeNoDuplicate ==
    \A p \in Procs : \A i \in DOMAIN Updates(run[p]) :
        LET r == run[p]
            u == Updates(r)[i]
            id == u.rec.student_id
            row == (IF u.track = 1 THEN r.existing.grade1 ELSE r.existing.grade2)[id].row
            old == parse_periods(r.start[row][PeriodCol(u.track)])
        IN  /\ RowsOf(ledger, r.date, u.track, id) = {row}
            /\ ledger[row][COL_A] = r.start[row][COL_A]
            /\ ledger[row][COL_B] = r.start[row][COL_B]
            /\ \A b \in DOMAIN r.blocks : \A k \in DOMAIN r.blocks[b].rows :
                  r.blocks[b].rows[k][IdCol(u.track)] # id
            /\ i < r.ui =>
                  ledger[row][PeriodCol(u.track)] =
                      format_periods(SortedSeq(Range(old) \cup Range(u.rec.periods)))

\* the afternoon run of a day has merged periods 5,6 into the row the morning
\* run wrote for the student, and has appended a row for another student
C2_Witness ==
    /\ run[1].pc = "done"
    /\ Len(run[1].cells) = 1
    /\ Len(run[1].blocks) = 1
    /\ run[1].start[run[1].cells[1].row][run[1].cells[1].col] = <<"1", ",", "2", SUFFIX>>
    /\ ledger[run[1].cells[1].row][run[1].cells[1].col]
           = <<"1", ",", "2", ",", "5", ",", "6", SUFFIX>>

\* C3 (ledger invariant under sequential runs): in every ledger reachable
\* from the header-only ledger, (a) the sequence numbers of the rows of one
\* date are pairwise distinct and the smallest of them is 1, and (b) a date,
\* track and student id occur in at most one row.
C3_LedgerInvariant ==
    /\ \A i, j \in DataRows(ledger) :
          (i # j /\ ledger[i][COL_A] = ledger[j][COL_A]) =>
              SeqOf(ledger, i) # SeqOf(ledger, j)
    /\ \A i \in DataRows(ledger) :
          /\ IsInt(ledger[i][COL_B])
          /\ \E j \in DataRows(ledger) :
                ledger[j][COL_A] = ledger[i][COL_A] /\ SeqOf(ledger, j) = 1
          /\ SeqOf(ledger, i) >= 1
    /\ \A i, j \in DataRows(ledger) : \A track \in {1, 2} :
          (/\ i # j
           /\ ledger[i][COL_A] = ledger[j][COL_A]
           /\ ledger[i][IdCol(track)] # "")
              => ledger[i][IdCol(track)] # ledger[j][IdCol(track)]

\* the ledger holds a row of the second day followed by a row of the first
C3_Witness ==
    /\ Len(ledger) = 3
    /\ ledger[2][COL_A] = "2026-01-12"
    /\ ledger[3][COL_A] = "2026-01-09"
    /\ ledger[3][COL_B] = <<"1">>

\* the next row index and the next sequence number a run computes from its
\* snapshot
NextRowOf(r) == r.existing.last_row + 1

NextSeqOf(r) == NextSeq(r.existing.max_seq)

Pending(p) == run[p].pc \in {"merge", "append"} /\ MaxNewRows(run[p]) > 0

\* two rows of one date carry the same sequence number
DuplicateSeq(sheet) ==
    \E i, j \in DataRows(sheet) :
        /\ i # j
        /\ sheet[i][COL_A] = sheet[j][COL_A]
        /\ sheet[i][COL_B] = sheet[j][COL_B]

\* C4 (unprotected race): nothing keeps a run from writing after another
\* run's snapshot, and when two concurrent invocations have both read their
\* snapshot and no block has been written since, both have computed the same
\* next row index and, for the same target date, the same next sequence
\* number.
C4_SameNextRowAndSeq ==
    \A p, q \in Procs :
        (p # q /\ Pending(p) /\ Pending(q) /\ run[p].fresh /\ run[q].fresh) =>
            /\ NextRowOf(run[p]) = NextRowOf(run[q])
            /\ run[p].date = run[q].date => NextSeqOf(run[p]) = NextSeqOf(run[q])

\* a run has written its block over a row another run had appended after the
\* snapshot (a lost update), and two rows of one date carry the same sequence
\* number
C4_Witness ==
    /\ \E p \in Procs :
          /\ run[p].blocks # <<>>
          /\ run[p].blocks[1].over # {}
    /\ DuplicateSeq(ledger)

Failing(p) == run[p].err \in {"merge", "append"}

SheetIds(r) == IF r.cancelOk THEN Range(r.cancelSheet) \ {"", " "} ELSE {}

CancelledRecords(r) == {i \in DOMAIN r.records : r.records[i].student_id \in SheetIds(r)}

BucketIds(r) ==
    RecordIds(r.grade1_update) \cup RecordIds(r.grade1_new)
        \cup RecordIds(r.grade2_update) \cup RecordIds(r.grade2_new)

BucketCount(r) ==
    Len(r.grade1_update) + Len(r.grade2_update) + Len(r.grade1_new) + Len(r.grade2_new)

TrackOfCol(col) == IF col = COL_F THEN 1 ELSE 2

\* C6 (cancellation exclusion): a record whose id is on the cancellation
\* sheet the run has read is in none of the four buckets, the run writes no
\* period cell of a row that holds its id and no row it appends contains the
\* id on either track, and the number of records that enter the partition is
\* the input count minus the number of cancelled input records.
C6_CancelledExcluded ==
    \A p \in Procs :
        LET r == run[p]
        IN  (r.pc # "idle" /\ r.records # <<>>) =>
                /\ \A i \in CancelledRecords(r) : r.records[i].student_id \notin BucketIds(r)
                /\ \A k \in DOMAIN r.cells :
                      r.start[r.cells[k].row][IdCol(TrackOfCol(r.cells[k].col))]
                          \notin SheetIds(r)
                /\ \A b \in DOMAIN r.blocks : \A k \in DOMAIN r.blocks[b].rows :
                      /\ r.blocks[b].rows[k][COL_C] \notin SheetIds(r)
                      /\ r.blocks[b].rows[k][COL_G] \notin SheetIds(r)
                /\ Len(r.filtered) = Len(r.records) - Cardinality(CancelledRecords(r))

\* a run of two records has completed and written to the ledger; one of its
\* records is cancelled, and its student already has a row of the target date
C6_Witness ==
    /\ run[1].pc = "done"
    /\ Len(run[1].records) = 2
    /\ Cardinality(CancelledRecords(run[1])) = 1
    /\ RowsOf(run[1].start, run[1].date, 1, "10911") # {}
    /\ Len(run[1].cells) + Len(run[1].blocks) = 1

\* C7 (fail-open cancellation): when the read of the cancellation sheet
\* fails, the cancellation set is empty, every input record enters the
\* partition and lands in a bucket, and the failed read neither ends the run
\* nor reaches the caller: the run only fails on a ledger write.
C7_FailOpen ==
    \A p \in Procs :
        LET r == run[p]
        IN  (r.pc # "idle" /\ r.records # <<>> /\ ~r.cancelOk) =>
                /\ r.cancelled = {}
                /\ r.filtered = r.records
                /\ BucketIds(r) = RecordIds(r.records)
                /\ BucketCount(r) = Len(r.records)
                /\ r.pc = "failed" => r.err \in {"merge", "append"}
                /\ r.pc = "done" => (r.err = "" /\ Response(p).success)

\* the read of a cancellation sheet that lists 10911 has failed, and the run
\* has appended a row for 10911 and returned
C7_Witness ==
    /\ run[1].pc = "done"
    /\ ~run[1].cancelOk
    /\ "10911" \in Range(run[1].cancelSheet)
    /\ run[1].ret = 1
    /\ Len(run[1].blocks) = 1
    /\ run[1].blocks[1].rows[1][COL_C] = "10911"

\* C8 (empty result): when the record list is empty or every record is on
\* the cancellation sheet the run has read, the call returns 0 without
\* raising, writes no period cell and no block, and the ledger is unchanged.
C8_EmptyIsSuccess ==
    \A p \in Procs :
        LET r == run[p]
        IN  (r.pc # "idle" /\ RecordIds(r.records) \subseteq SheetIds(r)) =>
                /\ r.pc = "done"
                /\ r.ret = 0
                /\ r.err = ""
                /\ Response(p) = [success |-> TRUE, rows_written |-> 0]
                /\ r.cells = <<>>
                /\ r.blocks = <<>>
                /\ ledger = r.start

\* a run whose only record is cancelled has returned, the cancelled student
\* having a row of the target date in the ledger
C8_Witness ==
    /\ run[1].pc = "done"
    /\ Len(run[1].records) = 1
    /\ RecordIds(run[1].records) \subseteq SheetIds(run[1])
    /\ RowsOf(ledger, run[1].date, 1, "10911") # {}

C10_NotificationCount ==
    \A p \in Procs : \A i \in DOMAIN run[p].notes :
        /\ run[p].notes[i].student_count = BucketCount(run[p])
        /\ notify = <<run[p].notes[i]>>

\* a run has merged one record and appended a row for another, and has
\* notified the count 2, which is not its number of appended rows
C10_Witness ==
    /\ run[1].pc = "done"
    /\ Len(run[1].notes) = 1
    /\ run[1].notes[1].student_count = 2
    /\ run[1].new_rows_count = 1
    /\ Len(run[1].cells) = 1

\* the sheet after the cell writes ws[1..n] in their order
RECURSIVE ApplyCells(_, _, _)
ApplyCells(sheet, ws, n) ==
    IF n = 0 THEN sheet
    ELSE WriteCell(ApplyCells(sheet, ws, n - 1), ws[n].row, ws[n].col, ws[n].val)

\* the sheet after the block writes bs[1..n] in their order
RECURSIVE ApplyBlocks(_, _, _)
ApplyBlocks(sheet, bs, n) ==
    IF n = 0 THEN sheet
    ELSE WriteBlock(ApplyBlocks(sheet, bs, n - 1), bs[n].row, bs[n].rows)

\* the ledger a sequential run leaves: its cell writes, then its block
Replay(r) == ApplyBlocks(ApplyCells(r.start, r.cells, Len(r.cells)), r.blocks, Len(r.blocks))

\* C11 (notification failure is isolated): a run whose notification lookup or
\* write has failed still returns, with no exception for the caller; the
\* value it returns is the number of rows of its block, and the ledger is
\* the one its merges and its block leave, which is what the same run with
\* a successful notification returns and leaves; the failed write leaves
\* cell B4 as it was.
C11_NotifyFailureIsolated ==
    \A p \in Procs :
        LET r == run[p]
        IN  /\ r.nfail =>
                  /\ r.pc = "done"
                  /\ r.err = ""
                  /\ Response(p) = [success |-> TRUE, rows_written |-> MaxNewRows(r)]
                  /\ r.notes = <<>>
                  /\ notify = r.startNotify
            /\ (r.pc = "done" /\ r.filtered # <<>>) =>
                  /\ r.ret = MaxNewRows(r)
                  /\ Len(r.cells) = Len(Updates(r))
                  /\ Len(r.blocks) = (IF MaxNewRows(r) > 0 THEN 1 ELSE 0)
                  /\ ledger = Replay(r)

\* the notification of a run that merged a record and appended a row has
\* failed, cell B4 holding the message of an earlier run
C11_Witness ==
    /\ run[1].nfail
    /\ run[1].pc = "done"
    /\ run[1].ret = 1
    /\ Len(run[1].cells) = 1
    /\ notify # <<>>
    /\ ledger # run[1].start

\* the input records of the grade whose student the snapshot does not hold on
\* the track at the target date, in the input order
NewOf(r, track) ==
    LET Keep(x) == x.grade = track /\ RowsOf(r.start, r.date, track, x.student_id) = {}
    IN  SelectSeq(r.records, Keep)

\* the id, name and periods columns of the track in the row
TrackCells(row, track) ==
    IF track = 1 THEN <<row[COL_C], row[COL_D], row[COL_F]>>
    ELSE <<row[COL_G], row[COL_H], row[COL_J]>>

RecordCells(x) == <<x.student_id, x.name, format_periods(x.periods)>>

\* C12 (positional packing of the new rows): with n1 new track-1 records and
\* n2 new track-2 records, in input order, the run writes a block of exactly
\* k = max(n1, n2) rows, and no block when k = 0; row i (from 0) of the block
\* holds the i-th new track-1 record in its track-1 columns if i < n1 and
\* blanks otherwise, and independently the i-th new track-2 record in its
\* track-2 columns if i < n2 and blanks otherwise.
C12_PositionalPacking ==
    \A p \in Procs :
        LET r == run[p]
            n1 == Len(NewOf(r, 1))
            n2 == Len(NewOf(r, 2))
            k == Max2(n1, n2)
        IN  (r.pc \in {"notify", "done"} /\ r.records # <<>>) =>
                /\ Len(r.blocks) = (IF k > 0 THEN 1 ELSE 0)
                /\ r.new_rows_count = k
                /\ Len(ledger) = Len(r.start) + k
                /\ \A b \in DOMAIN r.blocks :
                      /\ Len(r.blocks[b].rows) = k
                      /\ \A i \in 0..(k - 1) :
                            LET row == ledger[r.blocks[b].row + i]
                            IN  /\ row = r.blocks[b].rows[i + 1]
                                /\ TrackCells(row, 1) =
                                      (IF i < n1 THEN RecordCells(NewOf(r, 1)[i + 1])
                                       ELSE <<"", "", <<>>>>)
                                /\ (i >= n1 => row[COL_E] = "")
                                /\ TrackCells(row, 2) =
                                      (IF i < n2 THEN RecordCells(NewOf(r, 2)[i + 1])
                                       ELSE <<"", "", <<>>>>)
                                /\ (i >= n2 => row[COL_I] = "")

\* three new track-1 records and one new track-2 record have given three
\* rows, the track-2 columns filled in the first only
C12_Witness ==
    /\ run[1].pc = "done"
    /\ Len(run[1].grade1_new) = 3
    /\ Len(run[1].grade2_new) = 1
    /\ Len(ledger) = 4
    /\ ledger[2][COL_G] = "21202"
    /\ ledger[3][COL_G] = ""
    /\ ledger[4][COL_G] = ""
    /\ ledger[4][COL_C] # ""

\* the grade scope the marker of a descriptor stands for: N for "[N hagnyeon",
\* common (0) for a marker that combines two grades and for no marker
ScopeOf(course_info) ==
    LET mark == <<TokenAt(course_info, 1), TokenAt(course_info, 2), TokenAt(course_info, 3)>>
    IN  IF mark = <<"[", "1", HAGNYEON>> THEN 1
        ELSE IF mark = <<"[", "2", HAGNYEON>> THEN 2
        ELSE 0

\* the periods of a descriptor inside the window of the time slot
WindowPeriods(course_info, time_slot) ==
    Range(parse_period_from_course(course_info)) \cap ValidPeriods(time_slot)

\* the k-th student of the j-th processed row survives the filtering rule
Survives(j, k) ==
    LET row == scrape.rows[j]
        id == row.students[k][1]
    IN  /\ WindowPeriods(row.course_info, scrape.time_slot) # {}
        /\ \/ ScopeOf(row.course_info) = 0
           \/ ScopeOf(row.course_info) = (IF id[1] = "1" THEN 1 ELSE 2)

Sightings == {jk \in (DOMAIN scrape.rows) \X (1..2) : jk[2] \in DOMAIN scrape.rows[jk[1]].students}

Kept(j, k) == {c \in DOMAIN scrape.contrib : scrape.contrib[c].row = j /\ scrape.contrib[c].k = k}

\* C13 (filtering rule of the normalizer): the pairing of a roster row and a
\* student of its list contributes periods if and only if the periods parsed
\* from the row intersect the window of the time slot (1..4 in the morning,
\* 5..8 in the afternoon) and the grade scope of the row is common (0) or is
\* the actual grade of the student (1 if the id starts with 1, else 2); what
\* it contributes is the periods inside the window; a student under a course
\* of the other grade and a row without parsable periods contribute nothing.
C13_FilteringRule ==
    \A jk \in Sightings :
        LET row == scrape.rows[jk[1]]
            id == row.students[jk[2]][1]
        IN  /\ parse_grade(row.course_info) = ScopeOf(row.course_info)
            /\ (Kept(jk[1], jk[2]) # {}) <=> Survives(jk[1], jk[2])
            /\ Cardinality(Kept(jk[1], jk[2])) <= 1
            /\ \A c \in Kept(jk[1], jk[2]) :
                  Range(scrape.contrib[c].periods) =
                      WindowPeriods(row.course_info, scrape.time_slot)
            /\ (ScopeOf(row.course_info) = 1 /\ id[1] = "2") => Kept(jk[1], jk[2]) = {}
            /\ (ScopeOf(row.course_info) = 2 /\ id[1] = "1") => Kept(jk[1], jk[2]) = {}
            /\ parse_period_from_course(row.course_info) = <<>> => Kept(jk[1], jk[2]) = {}

\* an afternoon scrape has processed a row of a grade-1 course of periods 4,5
\* that lists a student of each grade, keeping period 5 for the student of
\* grade 1 only, and a row of a common course that kept both students
C13_Witness ==
    /\ scrape.time_slot = "afternoon"
    /\ Len(scrape.rows) = 2
    /\ Len(scrape.rows[1].students) = 2
    /\ ScopeOf(scrape.rows[1].course_info) = 1
    /\ Kept(1, 1) # {}
    /\ Kept(1, 2) = {}
    /\ scrape.contrib[1].periods = <<5>>
    /\ Kept(2, 1) # {}
    /\ Kept(2, 2) # {}
    /\ parse_grade(scrape.rows[2].course_info) = 0

\* the surviving sightings of the student id, and the first of them
SurvivingOf(id) ==
    {jk \in Sightings : scrape.rows[jk[1]].students[jk[2]][1] = id /\ Survives(jk[1], jk[2])}

FirstOf(S) == CHOOSE a \in S : \A b \in S : a[1] < b[1] \/ (a[1] = b[1] /\ a[2] <= b[2])

\* C14 (aggregation): the scrape returns exactly one record per student id
\* with a surviving sighting; the periods of the record are non-empty,
\* ascending without repeats, inside the window of the time slot, and are
\* the union of the window-filtered periods of the surviving rows that list
\* the student; its name and grade are those of the first surviving sighting.
C14_Aggregation ==
    scrape.pc = "done" =>
        LET recs == scrape.records
        IN  /\ \A i, j \in DOMAIN recs : i # j => recs[i].student_id # recs[j].student_id
            /\ {recs[i].student_id : i \in DOMAIN recs} =
                  {scrape.rows[jk[1]].students[jk[2]][1] :
                      jk \in {x \in Sightings : Survives(x[1], x[2])}}
            /\ \A i \in DOMAIN recs :
                  LET S == SurvivingOf(recs[i].student_id)
                      first == FirstOf(S)
                  IN  /\ recs[i].periods # <<>>
                      /\ \A a, b \in DOMAIN recs[i].periods :
                            a < b => recs[i].periods[a] < recs[i].periods[b]
                      /\ Range(recs[i].periods) \subseteq ValidPeriods(scrape.time_slot)
                      /\ Range(recs[i].periods) =
                            UNION {WindowPeriods(scrape.rows[jk[1]].course_info,
                                                 scrape.time_slot) : jk \in S}
                      /\ recs[i].name = scrape.rows[first[1]].students[first[2]][2]
                      /\ recs[i].grade = (IF recs[i].student_id[1] = "1" THEN 1 ELSE 2)

\* a morning scrape of two rows with periods 1,2 and 3,4 has returned one
\* record of periods 1,2,3,4 for the student both rows list, under the name
\* of the first row
C14_Witness ==
    /\ scrape.pc = "done"
    /\ scrape.time_slot = "morning"
    /\ Len(scrape.rows) = 2
    /\ Len(scrape.records) = 2
    /\ scrape.records[1].periods = <<1, 2, 3, 4>>
    /\ scrape.records[1].name = "KimJimon"
    /\ scrape.rows[2].students[1][2] = "KimJimong"
    /\ scrape.records[2].periods = <<1, 2>>

\* C15 (round trip of the periods text): for every set P of periods in 1..8,
\* the empty set included, parse_periods of format_periods of the ascending
\* list of P is that list, and parse_periods of merge_periods of the empty
\* text and P is that list.
C15_RoundTrip ==
    (call.fn \in {"format_periods", "merge_periods"} /\ call.existing = <<>>
        /\ Len(call.lists) = 1)
        => /\ parse_periods(call.result) = SortedSeq(Range(call.lists[1]))
           /\ Range(parse_periods(call.result)) = Range(call.lists[1])

\* the empty set has been merged into the empty text: the text is the bare
\* suffix, and it parses to no period
C15_Witness ==
    /\ call.fn = "merge_periods"
    /\ call.existing = <<>>
    /\ call.lists = << <<>> >>
    /\ call.result = <<SUFFIX>>
    /\ parse_periods(call.result) = <<>>

\* merge_periods folded over the text with the lists ls[1..n] in their order
RECURSIVE Fold(_, _, _)
Fold(text, ls, n) ==
    IF n = 0 THEN text ELSE merge_periods(Fold(text, ls, n - 1), ls[n])

RECURSIVE Concat(_, _)
Concat(ls, n) == IF n = 0 THEN <<>> ELSE Concat(ls, n - 1) \o ls[n]

Perms(n) == {f \in [1..n -> 1..n] : \A i, j \in 1..n : i # j => f[i] # f[j]}

\* the ascending, duplicate-free periods of the text, joined by commas and
\* followed by the suffix
Canonical(text) == JoinPeriods(SortedSeq(Range(parse_periods(text)))) \o <<SUFFIX>>

\* C16 (merge is order-independent): the text that merge_periods gives when
\* it is folded over an existing text with up to three period lists is the
\* same for every order of the lists, and is the text of one merge with the
\* concatenation of the lists; when every list is contained in the periods
\* of the existing text, it is the canonical text of the existing text, and
\* the existing text itself if that was canonical.
C16_MergeOrderIndependent ==
    call.fn = "merge_periods" =>
        LET n == Len(call.lists)
        IN  /\ \A f \in Perms(n) :
                  Fold(call.existing, [i \in 1..n |-> call.lists[f[i]]], n) = call.result
            /\ merge_periods(call.existing, Concat(call.lists, n)) = call.result
            /\ call.result = Canonical(call.result)
            /\ (\A i \in 1..n :
                   Range(call.lists[i]) \subseteq Range(parse_periods(call.existing)))
                  => /\ call.result = Canonical(call.existing)
                     /\ call.existing = Canonical(call.existing)
                           => call.result = call.existing

\* three different lists have been merged into a text that was not in
\* ascending order
C16_Witness ==
    /\ call.fn = "merge_periods"
    /\ call.existing = <<"2", ",", "1", SUFFIX>>
    /\ call.lists = << <<5, 2>>, <<1>>, <<5, 5>> >>
    /\ call.result = <<"1", ",", "2", ",", "5", SUFFIX>>

\* the highest data row of the sheet with a non-empty cell, 1 (the header) if none
HighestOccupied(sheet) ==
    MaxOf({i \in DataRows(sheet) : \E c \in DOMAIN sheet[i] : sheet[i][c] \notin {"", <<>>}}, 1)

\* the largest sequence number of the rows of the date, 0 if there is none
LargestSeq(sheet, date) ==
    MaxOf({SeqOf(sheet, i) : i \in {j \in DataRows(sheet) : sheet[j][COL_A] = date}}, 0)

\* C17 (placement of the appended block): in a sequential run the block of
\* the k > 0 new rows is written as one range to the rows r+1 .. r+k, r being
\* the highest occupied data row of the snapshot over all dates (1, the
\* header, if none); every row of the block has the target date, and the
\* i-th row (from 0) the sequence number m + 1 + i, m being the largest
\* sequence number of the snapshot's rows of the target date, or 0; the
\* block replaces no row of the snapshot.
C17_BlockPlacement ==
    \A p \in Procs : \A b \in DOMAIN run[p].blocks :
        LET r == run[p]
            blk == r.blocks[b]
            k == Len(blk.rows)
            hi == HighestOccupied(r.start)
            m == LargestSeq(r.start, r.date)
        IN  /\ k = MaxNewRows(r)
            /\ k > 0
            /\ blk.row = hi + 1
            /\ \A i \in 0..(k - 1) :
                  /\ blk.rows[i + 1][COL_A] = r.date
                  /\ blk.rows[i + 1][COL_B] = Str(m + 1 + i)
                  /\ ledger[hi + 1 + i] = blk.rows[i + 1]
            /\ Len(ledger) = hi + k
            /\ blk.over = {}
            /\ \A i \in DataRows(r.start) :
                  /\ i < blk.row
                  /\ ledger[i][COL_A] = r.start[i][COL_A]
                  /\ ledger[i][COL_B] = r.start[i][COL_B]

\* a run of the first day has appended its row below a row of the second
\* day, with sequence number 1
C17_Witness ==
    /\ run[1].pc = "done"
    /\ run[1].date = "2026-01-09"
    /\ Len(run[1].blocks) = 1
    /\ run[1].blocks[1].row = 3
    /\ run[1].start[2][COL_A] = "2026-01-12"
    /\ ledger[3][COL_B] = <<"1">>

\* C18 (value and footprint of a merge write): for each record of an update
\* bucket a sequential run writes exactly one cell, the period cell of the
\* record's track (F for track 1, J for track 2) in the row where the
\* snapshot holds the student on the target date; the text written is the
\* ascending, duplicate-free union of the periods parsed from the snapshot's
\* text of that cell and the record's periods, joined by commas and followed
\* by the suffix; no other cell of a row of the snapshot is changed.
C18_MergeFootprint ==
    \A p \in Procs :
        LET r == run[p]
        IN  /\ Len(r.cells) <= Len(Updates(r))
            /\ r.pc \in {"append", "notify", "done"} => Len(r.cells) = Len(Updates(r))
            /\ \A i \in DOMAIN r.cells :
                  LET u == Updates(r)[i]
                      w == r.cells[i]
                      old == Range(parse_periods(r.start[w.row][w.col]))
                  IN  /\ w.col = (IF u.track = 1 THEN COL_F ELSE COL_J)
                      /\ w.row \in DataRows(r.start)
                      /\ r.start[w.row][COL_A] = r.date
                      /\ r.start[w.row][IdCol(u.track)] = u.rec.student_id
                      /\ w.val = JoinPeriods(SortedSeq(old \cup Range(u.rec.periods)))
                                    \o <<SUFFIX>>
                      /\ ledger[w.row][w.col] = w.val
                      /\ \A j \in DOMAIN r.cells : (j # i) =>
                            (r.cells[j].row # w.row \/ r.cells[j].col # w.col)
            /\ \A i \in DOMAIN r.start : \A c \in DOMAIN r.start[i] :
                  ledger[i][c] # r.start[i][c] =>
                      \E k \in DOMAIN r.cells : r.cells[k].row = i /\ r.cells[k].col = c

\* the afternoon run has written 1,2,5,6 into cell J of the row of a student
\* of track 2, whose track-1 columns hold another student
C18_Witness ==
    /\ Len(run[1].cells) = 1
    /\ run[1].cells[1].col = COL_J
    /\ run[1].start[run[1].cells[1].row][COL_C] # ""
    /\ run[1].start[run[1].cells[1].row][COL_J] = <<"1", ",", "2", SUFFIX>>
    /\ ledger[run[1].cells[1].row][COL_J] = <<"1", ",", "2", ",", "5", ",", "6", SUFFIX>>
    /\ ledger[run[1].cells[1].row][COL_F] = <<"1", ",", "2", SUFFIX>>

\* the records of the run whose student the snapshot holds on their track on
\* another date only
EarlierOnly(r) ==
    {i \in DOMAIN r.filtered :
        LET x == r.filtered[i]
        IN  /\ x.grade \in {1, 2}
            /\ RowsOf(r.start, r.date, x.grade, x.student_id) = {}
            /\ \E d \in Dates : RowsOf(r.start, d, x.grade, x.student_id) # {}}

\* C19 (rows are never deleted, other dates are untouched): a sequential run
\* with target date D removes and clears no row of its snapshot, changes no
\* cell of a row of another date, and changes of a row of date D at most the
\* two period cells, each to a text whose periods contain those it held; a
\* record whose student is recorded on another date only is in a new bucket
\* and, once the block is written, has a row of date D of its own.
C19_RowsKept ==
    \A p \in Procs :
        LET r == run[p]
        IN  r.pc # "idle" =>
              /\ Len(ledger) >= Len(r.start)
              /\ \A i \in DataRows(r.start) :
                    /\ ledger[i][COL_A] = r.start[i][COL_A]
                    /\ r.start[i][COL_A] # r.date => ledger[i] = r.start[i]
                    /\ \A c \in DOMAIN r.start[i] :
                          c \notin {COL_F, COL_J} => ledger[i][c] = r.start[i][c]
                    /\ \A c \in {COL_F, COL_J} :
                          Range(parse_periods(r.start[i][c]))
                              \subseteq Range(parse_periods(ledger[i][c]))
              /\ \A i \in EarlierOnly(r) :
                    LET x == r.filtered[i]
                    IN  /\ x.student_id \in RecordIds(IF x.grade = 1 THEN r.grade1_new
                                                      ELSE r.grade2_new)
                        /\ r.blocks # <<>> =>
                              \E j \in DOMAIN ledger :
                                  /\ j > Len(r.start)
                                  /\ RowsOf(ledger, r.date, x.grade, x.student_id) = {j}

\* the morning run of the second day has given a fresh row to a student who
\* has a row of the first day with periods 1,2,5,6, and that row is as it was
C19_Witness ==
    /\ run[1].pc = "done"
    /\ run[1].date = "2026-01-12"
    /\ EarlierOnly(run[1]) # {}
    /\ Len(ledger) = 3
    /\ ledger[2][COL_A] = "2026-01-09"
    /\ ledger[2][COL_F] = <<"1", ",", "2", ",", "5", ",", "6", SUFFIX>>
    /\ ledger[3][COL_C] = ledger[2][COL_C]
    /\ ledger[3][COL_F] = <<"1", ",", "2", SUFFIX>>

\* the buckets that hold a record of the student id
BucketsOf(r, student_id) ==
    {b \in {"grade1_update", "grade1_new", "grade2_update", "grade2_new"} :
        student_id \in RecordIds(r[b])}

DateRows(sheet, date) == {i \in DataRows(sheet) : sheet[i][COL_A] = date}

\* C21 (contiguous numbering per date): in every ledger that sequential runs
\* build from the header-only ledger, the sequence numbers of the n rows of
\* a date are exactly 1..n, and they increase with the row index among the
\* rows of that date, also when the blocks of different dates alternate.
C21_ContiguousNumbering ==
    \A d \in Dates :
        LET rows == DateRows(ledger, d)
        IN  /\ \A i \in rows : IsInt(ledger[i][COL_B])
            /\ {SeqOf(ledger, i) : i \in rows} = 1..Cardinality(rows)
            /\ \A i, j \in rows : i < j => SeqOf(ledger, i) < SeqOf(ledger, j)

\* a row of the second day lies between the two rows of the first day, which
\* are numbered 1 and 2
C21_Witness ==
    /\ Len(ledger) = 4
    /\ ledger[2][COL_A] = "2026-01-09"
    /\ ledger[3][COL_A] = "2026-01-12"
    /\ ledger[4][COL_A] = "2026-01-09"
    /\ <<ledger[2][COL_B], ledger[3][COL_B], ledger[4][COL_B]>> = <<<<"1">>, <<"1">>, <<"2">>>>
    /\ run[1].pc = "done"

====
